---- MODULE Spec2Model ----
(***************************************************************************)
(* Model of the image-analysis result cache of ai-image-mcp                *)
(* (src/utils/cache_utils.py) and of the cached analysis operation that    *)
(* uses it (src/tools/image_description_tools.py).                          *)
(*                                                                         *)
(* A file's text is a sequence of cells; a cache file holds what json.dump *)
(* wrote: a header cell (file_path, file_hash, operation, params), the     *)
(* result string (a quote, one cell per character, a quote), and a trailer *)
(* cell (timestamp, file_size, file_mtime), in the order of the dict of    *)
(* store_result.                                                           *)
(***************************************************************************)
EXTENDS Integers, Sequences, FiniteSets, TLC

VARIABLES
    fs,             \* source files: path -> [bytes, mtime], DOMAIN = the paths that exist
    unreadable,     \* the image files (src) and cache files (cache) whose open() raises
                    \* PermissionError
    cacheDir,       \* the cache directory: "rw", "ro" (no create/unlink) or "absent"
    diskFull,       \* TRUE when a write to the cache directory raises OSError (ENOSPC)
    cacheFiles,     \* cache directory listing: cache key -> file text
    now,            \* time.time(), in seconds
    cacheInstance,  \* _cache_instance: 0 is None, otherwise the id of the instance
    constructed,    \* how many ImageAnalysisCache instances were constructed
    pc,             \* per thread: the place the thread is at
    loc,            \* per thread: the locals of the call it runs
    last            \* the call that completed last, and what it returned

vars == <<fs, unreadable, cacheDir, diskFull, cacheFiles, now, cacheInstance,
          constructed, pc, loc, last>>

-----------------------------------------------------------------------------
(* Bounds of the model *)

\* how many one-second steps the clock takes within one max_age period
MaxSmallTicks == 1
\* how many max_age-long steps the clock takes
MaxBigTicks == 1
\* how many steps of more than max_age the clock takes under SpecFault
MaxExpiries == 1
\* how many threads call into the cache at the same time
NumThreads == 2

-----------------------------------------------------------------------------
(* Values *)

\* Python's None and a returned str, as one shape
None == [some |-> FALSE, v |-> <<>>]
Some(s) == [some |-> TRUE, v |-> s]

\* the outcome of an expression that may raise
Ok(x) == [exc |-> FALSE, v |-> x]
Raise == [exc |-> TRUE, v |-> <<>>]

ImgA == "/img/a.png"
ImgB == "/img/b.png"
Paths == {ImgA, ImgB}

\* the byte contents a source file takes
BytesB1 == <<"x">>
BytesB2 == <<"y", "z">>
Contents == {BytesB1, BytesB2}

\* the result strings handed to store_result
Results == {<<"R">>, <<"T", "U">>}

PromptX == <<<<"prompt", "x">>>>
PromptY == <<<<"prompt", "y">>>>

Request(f, op, p) == [file |-> f, operation |-> op, params |-> p]
NoRequest == Request("", "", <<>>)
ReqA == Request(ImgA, "describe", PromptX)
ReqB == Request(ImgB, "describe", PromptX)

-----------------------------------------------------------------------------
(* src/utils/cache_utils.py: pure parts *)

\* max_age = 30 * 24 * 3600, 30 days in seconds
max_age == 30 * 24 * 3600

\* hashlib.sha256 of the whole content: a digest that determines the bytes
\* (no collisions)
SHA256(bytes) == <<"sha256", bytes>>

\* the alphabetical order of the parameter names in use
KeyRank(k) == CASE k = "analysis_type" -> 1 [] k = "prompt" -> 2 [] OTHER -> 3

\* mutant of SortByKey: the entries in the order of insertion
InsertionOrder(entries) == entries

\* json.dumps(params, sort_keys=True): the entries in the order of their keys
RECURSIVE SortByKey(_)
SortByKey(entries) ==
    IF entries = <<>> THEN <<>>
    ELSE LET m == CHOOSE i \in 1..Len(entries) :
                    \A j \in 1..Len(entries) :
                        \/ KeyRank(entries[i][1]) < KeyRank(entries[j][1])
                        \/ (KeyRank(entries[i][1]) = KeyRank(entries[j][1]) /\ i <= j)
             rest == [j \in 1..(Len(entries) - 1) |->
                        IF j < m THEN entries[j] ELSE entries[j + 1]]
         IN <<entries[m]>> \o SortByKey(rest)

\* hashlib.md5(...).hexdigest(): the digest determines the text hashed
MD5(text) == <<"md5", text>>

\* mutant of _get_cache_key: the file path is left out of the key string
KeyWithoutPath(file_path, operation, params) ==
    <<operation, "_", MD5(<<"", "_", operation, "_", SortByKey(params)>>), ".json">>

\* mutant of _get_cache_key: the parameters are left out of the key string
KeyWithoutParams(file_path, operation, params) ==
    <<operation, "_", MD5(<<file_path, "_", operation, "_", <<>>>>), ".json">>

\* _get_cache_key: operation, "_", digest of path, operation and sorted params, ".json"
_get_cache_key(file_path, operation, params) ==
    LET param_str == SortByKey(params)
        key_content == <<file_path, "_", operation, "_", param_str>>
    IN <<operation, "_", MD5(key_content), ".json">>

KeyOf(r) == _get_cache_key(r.file, r.operation, r.params)

\* the dict cache_data of store_result
CacheData(file_path, file_hash, operation, params, result, timestamp, file_size, file_mtime) ==
    [file_path |-> file_path, file_hash |-> file_hash, operation |-> operation,
     params |-> params, result |-> result, timestamp |-> timestamp,
     file_size |-> file_size, file_mtime |-> file_mtime]

HdrCell(d) == [t |-> "hdr", c |-> <<d.file_path, d.file_hash, d.operation, d.params>>]
ResCell(ch) == [t |-> "res", c |-> ch]
\* the quote that opens and closes the result string
QuoteCell == [t |-> "quote", c |-> <<>>]
TrlCell(d) == [t |-> "trl", c |-> <<d.timestamp, d.file_size, d.file_mtime>>]

\* the chunks json.dump hands to f.write: the fields before the result, the
\* result string, the fields after it
DumpHead(d) == <<HdrCell(d)>>
DumpResult(d) ==
    <<QuoteCell>> \o [i \in 1..Len(d.result) |-> ResCell(d.result[i])] \o <<QuoteCell>>
DumpTail(d) == <<TrlCell(d)>>

\* json.dump(cache_data, f): the whole text
JsonDump(d) == DumpHead(d) \o DumpResult(d) \o DumpTail(d)

\* json.load(f): the dict, or JSONDecodeError when the text is not one object
WellFormed(text) ==
    /\ Len(text) >= 4
    /\ text[1].t = "hdr"
    /\ text[2].t = "quote"
    /\ text[Len(text) - 1].t = "quote"
    /\ text[Len(text)].t = "trl"
    /\ \A i \in 3..(Len(text) - 2) : text[i].t = "res"

JsonLoad(text) ==
    IF ~WellFormed(text) THEN Raise
    ELSE LET h == text[1].c
             t == text[Len(text)].c
         IN Ok(CacheData(h[1], h[2], h[3], h[4],
                         [i \in 1..(Len(text) - 4) |-> text[i + 2].c],
                         t[1], t[2], t[3]))

\* mutants of CacheExpired: the boundary age counted as expired; a longer period;
\* every age counted as expired
CacheExpiredAlways(cache_age) == TRUE
CacheExpiredAtBoundary(cache_age) == cache_age >= max_age
CacheExpiredLate(cache_age) == cache_age > 2 * max_age

\* cache_age > max_age
CacheExpired(cache_age) == cache_age > max_age

-----------------------------------------------------------------------------
(* The file system the cache works on *)

NoFiles == [k \in {} |-> <<>>]

\* f with the entry of x removed
Without(f, x) == [y \in (DOMAIN f) \ {x} |-> f[y]]
\* f with x mapped to v, added when absent
With(f, x, v) == [y \in (DOMAIN f) \cup {x} |-> IF y = x THEN v ELSE f[y]]

\* file_path.exists()
Exists(file_path) == file_path \in DOMAIN fs

\* cache_file.exists()
CacheFileExists(files, cache_key) == cacheDir # "absent" /\ cache_key \in DOMAIN files

\* mutant of _get_file_hash: a file that cannot be read hashes as an empty one
HashOfNothingOnError(file_path) ==
    IF file_path \notin DOMAIN fs \/ file_path \in unreadable.src THEN Ok(SHA256(<<>>))
    ELSE Ok(SHA256(fs[file_path].bytes))

\* mutant of _get_file_hash: the modification time is hashed with the bytes
HashOfBytesAndMtime(file_path) ==
    IF file_path \notin DOMAIN fs \/ file_path \in unreadable.src THEN Raise
    ELSE Ok(SHA256(<<IF fs[file_path].mtime = 0 THEN "t0" ELSE "t+">> \o fs[file_path].bytes))

\* _get_file_hash: the digest of the bytes read, or the OSError of open()
_get_file_hash(file_path) ==
    IF file_path \notin DOMAIN fs \/ file_path \in unreadable.src THEN Raise
    ELSE Ok(SHA256(fs[file_path].bytes))

\* open(cache_file, 'r') and json.load
ReadCacheFile(files, cache_key) ==
    IF cache_key \notin DOMAIN files \/ cache_key \in unreadable.cache THEN Raise
    ELSE JsonLoad(files[cache_key])

\* mutant of UnlinkMissingOk: the file is left in place
UnlinkKeeps(files, cache_key) == Ok(files)

\* cache_file.unlink(missing_ok=True) on the listing `files`: the new listing,
\* or PermissionError when the directory does not allow it
UnlinkMissingOk(files, cache_key) ==
    IF cache_key \notin DOMAIN files THEN Ok(files)
    ELSE IF cacheDir # "rw" THEN Raise
    ELSE Ok(Without(files, cache_key))

\* cache_file.unlink(): FileNotFoundError when the file is gone
Unlink(files, cache_key) ==
    IF cache_key \notin DOMAIN files \/ cacheDir # "rw" THEN Raise
    ELSE Ok(Without(files, cache_key))

\* open(cache_file, 'w'): creates or truncates the file, or raises
OpenForWrite(files, cache_key) ==
    IF cacheDir = "absent" THEN Raise
    ELSE IF cache_key \notin DOMAIN files /\ cacheDir = "ro" THEN Raise
    ELSE IF cache_key \in DOMAIN files /\ cache_key \in unreadable.cache THEN Raise
    ELSE Ok(With(files, cache_key, <<>>))

\* one write() of `data` at `offset` into the text of a file
WriteAt(text, offset, data) ==
    LET n == IF Len(text) > offset + Len(data) THEN Len(text) ELSE offset + Len(data)
    IN [i \in 1..n |->
          IF i > offset /\ i <= offset + Len(data) THEN data[i - offset]
          ELSE IF i <= Len(text) THEN text[i]
          ELSE [t |-> "nul", c |-> <<>>]]

-----------------------------------------------------------------------------
(* ImageAnalysisCache.get_cached_result *)

\* mutant of GetOutcome: a hit writes the time of the lookup into the records
GetOutcomeSliding(ret, files, raised, path) ==
    [ret |-> ret,
     files |-> IF path # "hit" THEN files
               ELSE [k \in DOMAIN files |->
                       IF WellFormed(files[k])
                       THEN JsonDump([JsonLoad(files[k]).v EXCEPT !.timestamp = now])
                       ELSE files[k]],
     raised |-> raised, path |-> path]

\* what a call returns (ret), the listing it leaves (files), whether an
\* exception leaves it (raised), and the branch it took (path)
GetOutcome(ret, files, raised, path) ==
    [ret |-> ret, files |-> files, raised |-> raised, path |-> path]

\* the body of the try block, run on the listing `files`
GetCachedResultBody(files, file_path, operation, params) ==
    IF ~Exists(file_path) THEN GetOutcome(None, files, FALSE, "nofile")
    ELSE
    LET cache_key == _get_cache_key(file_path, operation, params) IN
    IF ~CacheFileExists(files, cache_key) THEN GetOutcome(None, files, FALSE, "nocache")
    ELSE
    LET cache_data == ReadCacheFile(files, cache_key) IN
    IF cache_data.exc THEN GetOutcome(None, files, TRUE, "error")
    ELSE
    LET current_hash == _get_file_hash(file_path) IN
    IF current_hash.exc THEN GetOutcome(None, files, TRUE, "error")
    ELSE IF cache_data.v.file_hash # current_hash.v THEN
        LET u == UnlinkMissingOk(files, cache_key) IN
        IF u.exc THEN GetOutcome(None, files, TRUE, "error")
        ELSE GetOutcome(None, u.v, FALSE, "stale")
    ELSE IF CacheExpired(now - cache_data.v.timestamp) THEN
        LET u == UnlinkMissingOk(files, cache_key) IN
        IF u.exc THEN GetOutcome(None, files, TRUE, "error")
        ELSE GetOutcome(None, u.v, FALSE, "expired")
    ELSE GetOutcome(Some(cache_data.v.result), files, FALSE, "hit")

\* mutant of GetCatch: the except clause clears the cache files away
GetCatchEvicts(body) ==
    IF body.raised THEN GetOutcome(None, NoFiles, FALSE, body.path) ELSE body

\* mutant of GetCatch: the exception is not handled
GetNoCatch(body) == body

\* except Exception: return None
GetCatch(body) ==
    IF body.raised THEN GetOutcome(None, body.files, FALSE, body.path) ELSE body

get_cached_result(files, file_path, operation, params) ==
    GetCatch(GetCachedResultBody(files, file_path, operation, params))

-----------------------------------------------------------------------------
(* ImageAnalysisCache.store_result *)

StoreOutcome(files, raised, path) == [files |-> files, raised |-> raised, path |-> path]

\* mutant of NewCacheData: the file's mtime taken as the timestamp
NewCacheDataMtime(file_path, operation, params, result) ==
    CacheData(file_path, SHA256(fs[file_path].bytes), operation, params, result,
              fs[file_path].mtime, Len(fs[file_path].bytes), fs[file_path].mtime)

\* the dict store_result assembles for the file as it is now
NewCacheData(file_path, operation, params, result) ==
    CacheData(file_path, SHA256(fs[file_path].bytes), operation, params, result,
              now, Len(fs[file_path].bytes), fs[file_path].mtime)

\* with open(cache_file, 'w') as f: json.dump(cache_data, f)
WriteCacheFile(files, cache_key, cache_data) ==
    LET o == OpenForWrite(files, cache_key) IN
    IF o.exc THEN StoreOutcome(files, TRUE, "error")
    ELSE IF diskFull THEN StoreOutcome(o.v, TRUE, "error")
    ELSE StoreOutcome(With(o.v, cache_key, WriteAt(<<>>, 0, JsonDump(cache_data))),
                      FALSE, "stored")

\* mutant of StoreResultBody: a missing image file removes the entry of the key
StoreResultBodyDrops(files, file_path, operation, params, result) ==
    IF ~Exists(file_path)
    THEN StoreOutcome(Without(files, _get_cache_key(file_path, operation, params)),
                      FALSE, "nofile")
    ELSE IF _get_file_hash(file_path).exc THEN StoreOutcome(files, TRUE, "error")
    ELSE WriteCacheFile(files, _get_cache_key(file_path, operation, params),
                        NewCacheData(file_path, operation, params, result))

\* the body of the try block of store_result, run on the listing `files`
StoreResultBody(files, file_path, operation, params, result) ==
    IF ~Exists(file_path) THEN StoreOutcome(files, FALSE, "nofile")
    ELSE
    LET cache_key == _get_cache_key(file_path, operation, params)
        file_hash == _get_file_hash(file_path)
    IN
    IF file_hash.exc THEN StoreOutcome(files, TRUE, "error")
    ELSE WriteCacheFile(files, cache_key,
                        NewCacheData(file_path, operation, params, result))

\* mutants of StoreCatch: the exception is not handled
StoreNoCatch(body) == body
StoreReraise(body) == body

\* except Exception: print, return
StoreCatch(body) ==
    IF body.raised THEN StoreOutcome(body.files, FALSE, body.path) ELSE body

store_result(files, file_path, operation, params, result) ==
    StoreCatch(StoreResultBody(files, file_path, operation, params, result))

-----------------------------------------------------------------------------
(* ImageAnalysisCache.clear_cache and get_cache_info *)

\* self.cache_dir.glob("*.json"): every key ends in ".json"
\* mutant of Glob: the pattern matches no file
GlobNothing(files) == {}

\* self.cache_dir.glob("*.json")
Glob(files) == IF cacheDir = "absent" THEN {} ELSE DOMAIN files

ClearOutcome(removed_count, files) == [removed_count |-> removed_count, files |-> files]

\* the for loop of clear_cache inside its try block: the first unlink that
\* raises ends the loop, and the count so far is returned
RECURSIVE ClearLoop(_, _, _)
ClearLoop(todo, files, removed_count) ==
    IF todo = {} THEN ClearOutcome(removed_count, files)
    ELSE LET cache_file == CHOOSE k \in todo : TRUE
             u == Unlink(files, cache_file)
         IN IF u.exc THEN ClearOutcome(removed_count, files)
            ELSE ClearLoop(todo \ {cache_file}, u.v, removed_count + 1)

clear_cache(files) == ClearLoop(Glob(files), files, 0)

\* the number of files in place of their sizes
SumSizesCount(files, keys) == Cardinality(keys)

\* sum(f.stat().st_size for f in cache_files if f.exists())
RECURSIVE SumSizes(_, _)
SumSizes(files, keys) ==
    IF keys = {} THEN 0
    ELSE LET k == CHOOSE x \in keys : TRUE
         IN Len(files[k]) + SumSizes(files, keys \ {k})

\* the try block of get_cache_info and its except clause: the files are
\* listed, each listed file is stat'ed, and a stat that raises (an I/O error,
\* a file removed after it was listed) gives the dict with 'error'
InfoTry(files, cache_files, stat_raises) ==
    IF stat_raises /\ cache_files # {}
    THEN [error |-> TRUE, cache_files_count |-> 0, total_size_bytes |-> 0]
    ELSE [error |-> FALSE,
          cache_files_count |-> Cardinality(cache_files),
          total_size_bytes |-> SumSizes(files, cache_files)]

\* get_cache_info when every stat answers: cache_files_count and total_size_bytes
get_cache_info(files) == InfoTry(files, Glob(files), FALSE)

-----------------------------------------------------------------------------
(* src/tools/image_description_tools.py: the cached analysis *)

\* what the world answers during one analysis: whether PIL reads the image,
\* whether its size is over max_size, whether OPENAI_API_KEY is set, whether
\* the API call returns, and which description it returns
World(image_ok, too_large, api_key, api_ok, variant) ==
    [image_ok |-> image_ok, too_large |-> too_large, api_key |-> api_key,
     api_ok |-> api_ok, variant |-> variant]
Worlds == {World(FALSE, FALSE, TRUE, TRUE, "d1"), World(TRUE, TRUE, TRUE, TRUE, "d1"),
           World(TRUE, FALSE, FALSE, TRUE, "d1"), World(TRUE, FALSE, TRUE, FALSE, "d1"),
           World(TRUE, FALSE, TRUE, TRUE, "d1"), World(TRUE, FALSE, TRUE, TRUE, "d2")}

CacheMarker == "\n\n[Result retrieved from cache]"

\* resolved_path.name
FileName(path) == CASE path = ImgA -> "a.png" [] path = ImgB -> "b.png" [] OTHER -> path

\* the description the API returns for the bytes and the prompt sent to it
Description(bytes, prompt, variant) == <<"Description:", bytes, prompt, variant>>

\* result = f"Image Analysis for '{resolved_path.name}': ... Description:\n{description}"
FormatResult(resolved_path, bytes, description) ==
    <<<<"Image Analysis for", FileName(resolved_path), "Image Info:", Len(bytes)>>,
      description>>

\* get_image_info: the dict, or {"error": ...} when the image cannot be opened
get_image_info(image_path, world) ==
    IF image_path \notin DOMAIN fs \/ image_path \in unreadable.src \/ ~world.image_ok
    THEN Raise
    ELSE Ok(fs[image_path])

AnalyzeOutcome(out, files, remote, raised, path) ==
    [out |-> out, files |-> files, remote |-> remote, raised |-> raised, path |-> path]

\* mutant of Truthy: the cached result is never used
TruthyNever(ret) == FALSE

\* if cached_result: (None and "" are both false)
Truthy(ret) == ret.some /\ ret.v # <<>>

\* lines 64-72: the description is formatted, stored, and returned
AnalyzeStored(result, stored) ==
    AnalyzeOutcome(Some(result), stored.files, TRUE, stored.raised, "fresh")

\* mutant of AnalyzeFresh: the result is returned without being stored
AnalyzeFreshNotStored(files, resolved_path, operation, params, result) ==
    AnalyzeOutcome(Some(result), files, TRUE, FALSE, "fresh")

AnalyzeFresh(files, resolved_path, operation, params, result) ==
    AnalyzeStored(result, store_result(files, resolved_path, operation, params, result))

\* lines 28-72: nothing usable in the cache
AnalyzeMiss(files, resolved_path, prompt, operation, params, world) ==
    IF get_image_info(resolved_path, world).exc
    THEN AnalyzeOutcome(Some(<<"Error reading image">>), files, FALSE, FALSE, "info_error")
    ELSE IF world.too_large
    THEN AnalyzeOutcome(Some(<<"Error: Image file is too large">>), files,
                        FALSE, FALSE, "too_large")
    ELSE IF ~world.api_key
    THEN AnalyzeOutcome(None, files, FALSE, TRUE, "no_key")
    ELSE IF ~world.api_ok
    THEN AnalyzeOutcome(None, files, TRUE, TRUE, "api_error")
    ELSE AnalyzeFresh(files, resolved_path, operation, params,
                      FormatResult(resolved_path, fs[resolved_path].bytes,
                                   Description(fs[resolved_path].bytes, prompt,
                                               world.variant)))

\* mutant of AnalyzeLookedUp: the marked output of a hit is stored again
AnalyzeLookedUpStoresHit(cached, resolved_path, prompt, operation, params, world) ==
    IF Truthy(cached.ret)
    THEN AnalyzeOutcome(Some(Append(cached.ret.v, CacheMarker)),
                        store_result(cached.files, resolved_path, operation, params,
                                     Append(cached.ret.v, CacheMarker)).files,
                        FALSE, FALSE, "hit")
    ELSE AnalyzeMiss(cached.files, resolved_path, prompt, operation, params, world)

\* lines 24-26: if cached_result: return cached_result + marker
AnalyzeLookedUp(cached, resolved_path, prompt, operation, params, world) ==
    IF Truthy(cached.ret)
    THEN AnalyzeOutcome(Some(Append(cached.ret.v, CacheMarker)), cached.files,
                        FALSE, FALSE, "hit")
    ELSE AnalyzeMiss(cached.files, resolved_path, prompt, operation, params, world)

_analyze_image_with_cache(files, resolved_path, prompt, operation, params, world) ==
    AnalyzeLookedUp(get_cached_result(files, resolved_path, operation, params),
                    resolved_path, prompt, operation, params, world)

\* except Exception as e: return f"Error analyzing image: {str(e)}"
DescribeCatch(a) ==
    IF a.raised
    THEN AnalyzeOutcome(Some(<<"Error analyzing image">>), a.files, a.remote,
                        FALSE, a.path)
    ELSE a

\* describe_image: validate_image_path, then the cached analysis, inside try / except
describe_image(files, image_path, prompt, world) ==
    IF ~Exists(image_path)
    THEN AnalyzeOutcome(Some(<<"Error: Image file not found.">>), files,
                        FALSE, FALSE, "invalid")
    ELSE DescribeCatch(_analyze_image_with_cache(files, image_path, prompt, "describe",
                                                 <<<<"prompt", prompt>>>>, world))

-----------------------------------------------------------------------------
(* The calls, each one whole *)

\* what `last` records of a completed call; prev is the call before it
Call(call, req, ret, path) ==
    [call |-> call, req |-> req, ret |-> ret, path |-> path,
     n |-> 0, size |-> 0, raised |-> FALSE, remote |-> FALSE, error |-> FALSE,
     prev |-> [call |-> last.call, req |-> last.req], puts |-> last.puts]

InitLast ==
    [call |-> "init", req |-> NoRequest, ret |-> None, path |-> "",
     n |-> 0, size |-> 0, raised |-> FALSE, remote |-> FALSE, error |-> FALSE,
     prev |-> [call |-> "init", req |-> NoRequest], puts |-> {}]

Init ==
    /\ fs = NoFiles
    /\ unreadable = [src |-> {}, cache |-> {}]
    /\ cacheDir = "rw"
    /\ diskFull = FALSE
    /\ cacheFiles = NoFiles
    /\ now = 0
    /\ cacheInstance = 1
    /\ constructed = 1
    /\ pc = <<>>
    /\ loc = <<>>
    /\ last = InitLast

\* the permissions of a removed file go with it
Chmods(files) ==
    [src |-> unreadable.src \cap DOMAIN fs, cache |-> unreadable.cache \cap DOMAIN files]

\* a call of get_cache().get_cached_result(r.file, r.operation, r.params)
GetCachedResult(r) ==
    \E o \in {get_cached_result(cacheFiles, r.file, r.operation, r.params)} :
    /\ cacheFiles' = o.files
    /\ unreadable' = Chmods(o.files)
    /\ last' = [Call("get", r, o.ret, o.path) EXCEPT !.raised = o.raised]
    /\ UNCHANGED <<fs, cacheDir, diskFull, now, cacheInstance, constructed, pc, loc>>

\* a call of get_cache().store_result(r.file, r.operation, r.params, result)
StoreResult(r, result) ==
    \E o \in {store_result(cacheFiles, r.file, r.operation, r.params, result)} :
    /\ cacheFiles' = o.files
    /\ last' = [Call("store", r, Some(result), o.path) EXCEPT !.raised = o.raised]
    /\ UNCHANGED <<fs, unreadable, cacheDir, diskFull, now, cacheInstance, constructed,
                   pc, loc>>

\* a call of get_cache().clear_cache()
ClearCache ==
    \E o \in {clear_cache(cacheFiles)} :
    /\ cacheFiles' = o.files
    /\ unreadable' = Chmods(o.files)
    /\ last' = [Call("clear", NoRequest, None, "") EXCEPT !.n = o.removed_count]
    /\ UNCHANGED <<fs, cacheDir, diskFull, now, cacheInstance, constructed, pc, loc>>

\* a call of get_cache().get_cache_info()
GetCacheInfoIO(stat_raises) ==
    \E o \in {InfoTry(cacheFiles, Glob(cacheFiles), stat_raises)} :
    /\ last' = [Call("info", NoRequest, None, IF o.error THEN "error" ELSE "") EXCEPT
                  !.n = o.cache_files_count, !.size = o.total_size_bytes,
                  !.error = o.error]
    /\ UNCHANGED <<fs, unreadable, cacheDir, diskFull, cacheFiles, now, cacheInstance,
                   constructed, pc, loc>>

\* get_cache_info() when every stat answers
GetCacheInfo == GetCacheInfoIO(FALSE)

\* a call of the tool describe_image(f, prompt)
DescribeImage(f, prompt, world) ==
    \E o \in {describe_image(cacheFiles, f, prompt, world)} :
    /\ cacheFiles' = o.files
    /\ unreadable' = Chmods(o.files)
    /\ last' = [Call("describe", Request(f, "describe", <<<<"prompt", prompt>>>>),
                     o.out, o.path)
                  EXCEPT !.raised = o.raised, !.remote = o.remote]
    /\ UNCHANGED <<fs, cacheDir, diskFull, now, cacheInstance, constructed, pc, loc>>

-----------------------------------------------------------------------------
(* What happens around the program *)

Env == Call("env", NoRequest, None, "")

\* the image file is created or rewritten
WriteFile(f, bytes) ==
    /\ f \notin unreadable.src
    /\ fs' = With(fs, f, [bytes |-> bytes, mtime |-> now])
    /\ last' = Env
    /\ UNCHANGED <<unreadable, cacheDir, diskFull, cacheFiles, now, cacheInstance,
                   constructed, pc, loc>>

\* the image file is removed
DeleteFile(f) ==
    /\ f \in DOMAIN fs
    /\ fs' = Without(fs, f)
    /\ unreadable' = [unreadable EXCEPT !.src = @ \ {f}]
    /\ last' = Env
    /\ UNCHANGED <<cacheDir, diskFull, cacheFiles, now, cacheInstance, constructed,
                   pc, loc>>

\* one second passes
TickSecond ==
    /\ now % max_age < MaxSmallTicks
    /\ now' = now + 1
    /\ last' = Env
    /\ UNCHANGED <<fs, unreadable, cacheDir, diskFull, cacheFiles, cacheInstance,
                   constructed, pc, loc>>

\* max_age seconds pass
TickMaxAge ==
    /\ now \div max_age < MaxBigTicks
    /\ now' = now + max_age
    /\ last' = Env
    /\ UNCHANGED <<fs, unreadable, cacheDir, diskFull, cacheFiles, cacheInstance,
                   constructed, pc, loc>>

\* more than max_age seconds pass
TickPastMaxAge ==
    /\ now \div (max_age + 1) < MaxExpiries
    /\ now' = now + max_age + 1
    /\ last' = Env
    /\ UNCHANGED <<fs, unreadable, cacheDir, diskFull, cacheFiles, cacheInstance,
                   constructed, pc, loc>>

\* a cache file is cut short to its first n cells (a torn write, a crash of
\* another process)
CorruptCacheFile(k, n) ==
    /\ k \in DOMAIN cacheFiles
    /\ n < Len(cacheFiles[k])
    /\ cacheFiles' = [cacheFiles EXCEPT ![k] = SubSeq(cacheFiles[k], 1, n)]
    /\ last' = Env
    /\ UNCHANGED <<fs, unreadable, cacheDir, diskFull, now, cacheInstance, constructed,
                   pc, loc>>

\* the requests the calls are made with
Requests == {ReqA}

Next ==
    \/ \E r \in Requests : GetCachedResult(r)
    \/ \E r \in Requests, result \in Results : StoreResult(r, result)
    \/ ClearCache
    \/ GetCacheInfo
    \/ \E r \in Requests, world \in Worlds : DescribeImage(r.file, r.params[1][2], world)
    \/ \E r \in Requests, bytes \in Contents : WriteFile(r.file, bytes)
    \/ \E r \in Requests : DeleteFile(r.file)
    \/ TickSecond
    \/ TickMaxAge
    \/ \E r \in Requests, n \in {0, 1} : CorruptCacheFile(KeyOf(r), n)

Spec == Init /\ [][Next]_vars

-----------------------------------------------------------------------------
(* Failures of the file system *)

\* chmod 000 / chmod 644 of an image file
ChmodFile(f) ==
    /\ f \in DOMAIN fs
    /\ unreadable' = [unreadable EXCEPT
                        !.src = IF f \in @ THEN @ \ {f} ELSE @ \cup {f}]
    /\ last' = Env
    /\ UNCHANGED <<fs, cacheDir, diskFull, cacheFiles, now, cacheInstance, constructed,
                   pc, loc>>

\* chmod 000 / chmod 644 of a cache file
ChmodCacheFile(k) ==
    /\ k \in DOMAIN cacheFiles
    /\ unreadable' = [unreadable EXCEPT
                        !.cache = IF k \in @ THEN @ \ {k} ELSE @ \cup {k}]
    /\ last' = Env
    /\ UNCHANGED <<fs, cacheDir, diskFull, cacheFiles, now, cacheInstance, constructed,
                   pc, loc>>

\* chmod of the cache directory: with "ro" no file is created in it or removed
\* from it, the files in it are still read and rewritten
ChmodCacheDir ==
    /\ cacheDir # "absent"
    /\ cacheDir' = IF cacheDir = "rw" THEN "ro" ELSE "rw"
    /\ last' = Env
    /\ UNCHANGED <<fs, unreadable, diskFull, cacheFiles, now, cacheInstance, constructed,
                   pc, loc>>

\* the cache directory is removed with its files (a cleaner of the temp directory)
RemoveCacheDir ==
    /\ cacheDir # "absent"
    /\ cacheDir' = "absent"
    /\ cacheFiles' = NoFiles
    /\ unreadable' = [unreadable EXCEPT !.cache = {}]
    /\ last' = Env
    /\ UNCHANGED <<fs, diskFull, now, cacheInstance, constructed, pc, loc>>

\* the cache directory is made again (a restart of the server)
RestoreCacheDir ==
    /\ cacheDir = "absent"
    /\ cacheDir' = "rw"
    /\ last' = Env
    /\ UNCHANGED <<fs, unreadable, diskFull, cacheFiles, now, cacheInstance, constructed,
                   pc, loc>>

\* the disk fills up, or space is freed
ToggleDiskFull ==
    /\ diskFull' = ~diskFull
    /\ last' = Env
    /\ UNCHANGED <<fs, unreadable, cacheDir, cacheFiles, now, cacheInstance, constructed,
                   pc, loc>>

\* the calls and the world of SpecFault
FaultResults == {<<"R">>}
FaultWorlds == {World(TRUE, FALSE, TRUE, TRUE, "d1")}

NextFault ==
    \/ \E r \in Requests : GetCachedResult(r)
    \/ \E r \in Requests, result \in FaultResults : StoreResult(r, result)
    \/ ClearCache
    \/ GetCacheInfo
    \/ \E r \in Requests, world \in FaultWorlds :
          DescribeImage(r.file, r.params[1][2], world)
    \/ \E r \in Requests, bytes \in Contents : WriteFile(r.file, bytes)
    \/ \E r \in Requests : DeleteFile(r.file)
    \/ TickPastMaxAge
    \/ \E r \in Requests : CorruptCacheFile(KeyOf(r), 1)
    \/ \E r \in Requests : ChmodFile(r.file)
    \/ \E r \in Requests : ChmodCacheFile(KeyOf(r))
    \/ ChmodCacheDir
    \/ RemoveCacheDir
    \/ RestoreCacheDir
    \/ ToggleDiskFull

SpecFault == Init /\ [][NextFault]_vars

-----------------------------------------------------------------------------
(* The cache with entries under two keys *)

ClearRequests == {ReqA, ReqB}

NextClear ==
    \/ \E r \in ClearRequests, result \in Results : StoreResult(r, result)
    \/ \E r \in ClearRequests : GetCachedResult(r)
    \/ ClearCache
    \/ GetCacheInfo
    \/ \E f \in Paths, bytes \in Contents : WriteFile(f, bytes)
    \/ \E f \in Paths : DeleteFile(f)

SpecClear == Init /\ [][NextClear]_vars

\* the same with the clock, for the life of an entry from store to removal
NextLifecycle ==
    \/ \E r \in ClearRequests, result \in FaultResults : StoreResult(r, result)
    \/ \E r \in ClearRequests : GetCachedResult(r)
    \/ ClearCache
    \/ GetCacheInfo
    \/ \E f \in Paths, bytes \in Contents : WriteFile(f, bytes)
    \/ \E f \in Paths : DeleteFile(f)
    \/ TickPastMaxAge

SpecLifecycle == Init /\ [][NextLifecycle]_vars

-----------------------------------------------------------------------------
(* _get_cache_key applied while the files and the cache change; loc keeps
   the request and the key of the first application *)

KeyOperations == {"describe", "analyze"}
KeyParams ==
    {<<<<"prompt", "x">>>>, <<<<"prompt", "y">>>>,
     <<<<"analysis_type", "general">>, <<"prompt", "x">>>>,
     <<<<"prompt", "x">>, <<"analysis_type", "general">>>>,
     <<<<"prompt", "x">>, <<"analysis_type", "objects">>>>}
KeyRequests == {Request(f, op, p) : f \in Paths, op \in KeyOperations, p \in KeyParams}

\* a call of _get_cache_key(r.file, r.operation, r.params)
GetCacheKey(r) ==
    /\ last' = Call("key", r, Some(_get_cache_key(r.file, r.operation, r.params)), "")
    /\ loc' = IF loc = <<>>
              THEN <<[req |-> r, key |-> _get_cache_key(r.file, r.operation, r.params)]>>
              ELSE loc
    /\ UNCHANGED <<fs, unreadable, cacheDir, diskFull, cacheFiles, now, cacheInstance,
                   constructed, pc>>

NextKey ==
    \/ \E r \in KeyRequests : GetCacheKey(r)
    \/ \E r \in Requests, result \in FaultResults : StoreResult(r, result)
    \/ ClearCache
    \/ \E r \in Requests, bytes \in Contents : WriteFile(r.file, bytes)

SpecKey == Init /\ [][NextKey]_vars

-----------------------------------------------------------------------------
(* One file looked up under requests that differ in the operation or in a
   parameter value *)

SensRequests ==
    {ReqA, Request(ImgA, "describe", PromptY), Request(ImgA, "analyze", PromptX)}

NextSens ==
    \/ \E r \in SensRequests, result \in Results : StoreResult(r, result)
    \/ \E r \in SensRequests : GetCachedResult(r)
    \/ \E bytes \in Contents : WriteFile(ImgA, bytes)

SpecSens == Init /\ [][NextSens]_vars

-----------------------------------------------------------------------------
(* get_cache() called from several threads, one step per read or write of
   the global _cache_instance *)

Threads == 1..NumThreads

InitSingleton ==
    /\ fs = NoFiles
    /\ unreadable = [src |-> {}, cache |-> {}]
    /\ cacheDir \in {"absent", "rw"}
    /\ diskFull = FALSE
    /\ cacheFiles = NoFiles
    /\ now = 0
    /\ cacheInstance = 0
    /\ constructed = 0
    /\ pc = [t \in Threads |-> "idle"]
    /\ loc = [t \in Threads |-> [inst |-> 0]]
    /\ last = InitLast

\* a thread calls get_cache()
GetCacheCall(t) ==
    /\ pc[t] = "idle"
    /\ pc' = [pc EXCEPT ![t] = "check"]
    /\ UNCHANGED <<fs, unreadable, cacheDir, diskFull, cacheFiles, now, cacheInstance,
                   constructed, loc, last>>

\* if _cache_instance is None:
GetCacheCheck(t) ==
    /\ pc[t] = "check"
    /\ pc' = [pc EXCEPT ![t] = IF cacheInstance = 0 THEN "construct" ELSE "return"]
    /\ UNCHANGED <<fs, unreadable, cacheDir, diskFull, cacheFiles, now, cacheInstance,
                   constructed, loc, last>>

\* ImageAnalysisCache(): self.cache_dir.mkdir(exist_ok=True)
GetCacheConstruct(t) ==
    /\ pc[t] = "construct"
    /\ constructed' = constructed + 1
    /\ cacheDir' = IF cacheDir = "absent" THEN "rw" ELSE cacheDir
    /\ loc' = [loc EXCEPT ![t].inst = constructed + 1]
    /\ pc' = [pc EXCEPT ![t] = "assign"]
    /\ UNCHANGED <<fs, unreadable, diskFull, cacheFiles, now, cacheInstance, last>>

\* _cache_instance = <the new instance>
GetCacheAssign(t) ==
    /\ pc[t] = "assign"
    /\ cacheInstance' = loc[t].inst
    /\ pc' = [pc EXCEPT ![t] = "return"]
    /\ UNCHANGED <<fs, unreadable, cacheDir, diskFull, cacheFiles, now, constructed,
                   loc, last>>

\* return _cache_instance
GetCacheReturn(t) ==
    /\ pc[t] = "return"
    /\ pc' = [pc EXCEPT ![t] = "idle"]
    /\ loc' = [loc EXCEPT ![t].inst = 0]
    /\ last' = [Call("get_cache", NoRequest, None, "") EXCEPT !.n = cacheInstance]
    /\ UNCHANGED <<fs, unreadable, cacheDir, diskFull, cacheFiles, now, cacheInstance,
                   constructed>>

NextSingleton ==
    \E t \in Threads :
        \/ GetCacheCall(t)
        \/ GetCacheCheck(t)
        \/ GetCacheConstruct(t)
        \/ GetCacheAssign(t)
        \/ GetCacheReturn(t)

SpecSingleton == InitSingleton /\ [][NextSingleton]_vars

-----------------------------------------------------------------------------
(* get_cached_result and store_result called from several threads on one key,
   one step per system call on the cache file.  A thread that has the cache
   file open when it is unlinked keeps the unlinked file: what it writes is
   seen by nobody, and it reads nothing more. *)

RaceReq == ReqA
RaceKey == KeyOf(RaceReq)
RaceResults == {<<"R">>, <<"T", "U">>, <<"V", "W">>}

NoLocals ==
    [result |-> <<>>, data |-> Raise, todo |-> <<>>, offset |-> 0, buf |-> <<>>,
     detached |-> FALSE]

\* `last` after a step that completes no call
RaceStep ==
    [Call("step", NoRequest, None, "") EXCEPT !.prev = [call |-> "", req |-> NoRequest]]

\* `last` after a call returns
RaceReturn(call, ret, path) ==
    [Call(call, RaceReq, ret, path) EXCEPT !.prev = [call |-> "", req |-> NoRequest]]

InitRace ==
    /\ fs = With(NoFiles, RaceReq.file, [bytes |-> BytesB1, mtime |-> 0])
    /\ unreadable = [src |-> {}, cache |-> {}]
    /\ cacheDir = "rw"
    /\ diskFull = FALSE
    /\ cacheFiles = NoFiles
    /\ now = 0
    /\ cacheInstance = 1
    /\ constructed = 1
    /\ pc = [t \in Threads |-> "idle"]
    /\ loc = [t \in Threads |-> NoLocals]
    /\ last = InitLast

\* the threads that hold the cache file open
Holders == {t \in Threads : pc[t] \in {"s_write", "g_read"}}

\* the file is unlinked under the threads of `holders`
Detach(holders) ==
    [t \in Threads |-> IF t \in holders THEN [loc[t] EXCEPT !.detached = TRUE] ELSE loc[t]]

\* mutant of StoreChunks: the text reaches the file one cell at a time
StoreChunksByCell(cache_data, buffered) ==
    [i \in 1..Len(JsonDump(cache_data)) |-> <<JsonDump(cache_data)[i]>>]

\* json.dump(cache_data, f) and the close of f: the write() calls the file
\* object makes, one for a text that fits its buffer, else one per chunk
StoreChunks(cache_data, buffered) ==
    IF buffered THEN <<JsonDump(cache_data)>>
    ELSE <<DumpHead(cache_data), DumpResult(cache_data), DumpTail(cache_data)>>

\* a thread calls store_result(file, operation, params, result)
RaceStoreCall(t, result) ==
    /\ pc[t] = "idle"
    /\ pc' = [pc EXCEPT ![t] = "s_prepare"]
    /\ loc' = [loc EXCEPT ![t] = [NoLocals EXCEPT !.result = result]]
    /\ last' = [RaceStep EXCEPT !.puts = @ \cup {result}]
    /\ UNCHANGED <<fs, unreadable, cacheDir, diskFull, cacheFiles, now, cacheInstance,
                   constructed>>

\* lines 125-142: the exists check, the hash, the dict
RaceStorePrepare(t) ==
    /\ pc[t] = "s_prepare"
    /\ IF ~Exists(RaceReq.file)
       THEN /\ pc' = [pc EXCEPT ![t] = "idle"]
            /\ loc' = [loc EXCEPT ![t] = NoLocals]
            /\ last' = RaceReturn("store", Some(loc[t].result), "nofile")
       ELSE /\ pc' = [pc EXCEPT ![t] = "s_open"]
            /\ loc' = [loc EXCEPT ![t].data =
                         Ok(NewCacheData(RaceReq.file, RaceReq.operation, RaceReq.params,
                                         loc[t].result))]
            /\ last' = RaceStep
    /\ UNCHANGED <<fs, unreadable, cacheDir, diskFull, cacheFiles, now, cacheInstance,
                   constructed>>

\* line 144: open(cache_file, 'w') creates the file or cuts it to length 0
RaceStoreOpen(t) ==
    /\ pc[t] = "s_open"
    /\ \E buffered \in BOOLEAN, o \in {OpenForWrite(cacheFiles, RaceKey)} :
         IF o.exc
         THEN /\ pc' = [pc EXCEPT ![t] = "idle"]
              /\ loc' = [loc EXCEPT ![t] = NoLocals]
              /\ last' = RaceReturn("store", Some(loc[t].result), "error")
              /\ UNCHANGED cacheFiles
         ELSE /\ pc' = [pc EXCEPT ![t] = "s_write"]
              /\ loc' = [loc EXCEPT ![t].todo = StoreChunks(loc[t].data.v, buffered)]
              /\ cacheFiles' = o.v
              /\ last' = RaceStep
    /\ UNCHANGED <<fs, unreadable, cacheDir, diskFull, now, cacheInstance, constructed>>

\* line 145: the next write() at the thread's file offset; the last one is
\* the flush of the close, and store_result returns
RaceStoreWrite(t) ==
    /\ pc[t] = "s_write"
    /\ cacheFiles' =
         IF loc[t].detached THEN cacheFiles
         ELSE With(cacheFiles, RaceKey,
                   WriteAt(cacheFiles[RaceKey], loc[t].offset, Head(loc[t].todo)))
    /\ IF Len(loc[t].todo) > 1
       THEN /\ loc' = [loc EXCEPT ![t].todo = Tail(@),
                                  ![t].offset = @ + Len(Head(loc[t].todo))]
            /\ last' = RaceStep
            /\ UNCHANGED pc
       ELSE /\ pc' = [pc EXCEPT ![t] = "idle"]
            /\ loc' = [loc EXCEPT ![t] = NoLocals]
            /\ last' = RaceReturn("store", Some(loc[t].result), "stored")
    /\ UNCHANGED <<fs, unreadable, cacheDir, diskFull, now, cacheInstance, constructed>>

\* a thread calls get_cached_result(file, operation, params)
RaceGetCall(t) ==
    /\ pc[t] = "idle"
    /\ pc' = [pc EXCEPT ![t] = "g_exists"]
    /\ loc' = [loc EXCEPT ![t] = NoLocals]
    /\ last' = RaceStep
    /\ UNCHANGED <<fs, unreadable, cacheDir, diskFull, cacheFiles, now, cacheInstance,
                   constructed>>

\* `last` and the thread after get_cached_result returns
RaceGetReturn(t, ret, path) ==
    /\ pc' = [pc EXCEPT ![t] = "idle"]
    /\ last' = RaceReturn("get", ret, path)

\* lines 79-86: the two exists checks
RaceGetExists(t) ==
    /\ pc[t] = "g_exists"
    /\ IF ~Exists(RaceReq.file) THEN RaceGetReturn(t, None, "nofile")
       ELSE IF ~CacheFileExists(cacheFiles, RaceKey) THEN RaceGetReturn(t, None, "nocache")
       ELSE pc' = [pc EXCEPT ![t] = "g_open"] /\ last' = RaceStep
    /\ UNCHANGED <<fs, unreadable, cacheDir, diskFull, cacheFiles, now, cacheInstance,
                   constructed, loc>>

\* lines 89-90: open(cache_file, 'r') and the first read() of json.load: what
\* the file holds now; a missing file raises and an empty one ends the text
RaceGetOpen(t) ==
    /\ pc[t] = "g_open"
    /\ IF RaceKey \notin DOMAIN cacheFiles
       THEN RaceGetReturn(t, None, "error") /\ UNCHANGED loc
       ELSE IF cacheFiles[RaceKey] = <<>>
       THEN RaceGetReturn(t, None, "error") /\ UNCHANGED loc
       ELSE /\ pc' = [pc EXCEPT ![t] = "g_read"]
            /\ loc' = [loc EXCEPT ![t].buf = cacheFiles[RaceKey]]
            /\ last' = RaceStep
    /\ UNCHANGED <<fs, unreadable, cacheDir, diskFull, cacheFiles, now, cacheInstance,
                   constructed>>

\* what a read() at `offset` returns: the text from there to the end of the file
ReadFrom(t, offset) ==
    IF loc[t].detached \/ Len(cacheFiles[RaceKey]) <= offset THEN <<>>
    ELSE SubSeq(cacheFiles[RaceKey], offset + 1, Len(cacheFiles[RaceKey]))

\* line 90: the next read() of json.load; when it returns nothing the text is
\* complete and json.load parses it
RaceGetRead(t) ==
    /\ pc[t] = "g_read"
    /\ \E more \in {ReadFrom(t, Len(loc[t].buf))}, cache_data \in {JsonLoad(loc[t].buf)} :
         IF more # <<>>
         THEN /\ loc' = [loc EXCEPT ![t].buf = @ \o more]
              /\ last' = RaceStep
              /\ UNCHANGED pc
         ELSE IF cache_data.exc
         THEN RaceGetReturn(t, None, "error") /\ loc' = [loc EXCEPT ![t] = NoLocals]
         ELSE /\ pc' = [pc EXCEPT ![t] = "g_check"]
              /\ loc' = [loc EXCEPT ![t] = [NoLocals EXCEPT !.data = cache_data]]
              /\ last' = RaceStep
    /\ UNCHANGED <<fs, unreadable, cacheDir, diskFull, cacheFiles, now, cacheInstance,
                   constructed>>

\* the record read is stale or expired against the file and the clock now
RaceEvicts(cache_data, current_hash) ==
    \/ cache_data.file_hash # current_hash
    \/ CacheExpired(now - cache_data.timestamp)

\* lines 92-106: the hash of the file now, the comparison, the age check;
\* unlink(missing_ok=True) on a stale or expired record, else the result
RaceGetCheck(t) ==
    /\ pc[t] = "g_check"
    /\ \E current_hash \in {_get_file_hash(RaceReq.file)} :
         IF current_hash.exc
         THEN RaceGetReturn(t, None, "error") /\ loc' = [loc EXCEPT ![t] = NoLocals]
              /\ UNCHANGED cacheFiles
         ELSE IF RaceEvicts(loc[t].data.v, current_hash.v)
         THEN /\ RaceGetReturn(t, None,
                               IF loc[t].data.v.file_hash # current_hash.v
                               THEN "stale" ELSE "expired")
              /\ cacheFiles' = UnlinkMissingOk(cacheFiles, RaceKey).v
              /\ loc' = [Detach(Holders) EXCEPT ![t] = NoLocals]
         ELSE /\ RaceGetReturn(t, Some(loc[t].data.v.result), "hit")
              /\ loc' = [loc EXCEPT ![t] = NoLocals]
              /\ UNCHANGED cacheFiles
    /\ UNCHANGED <<fs, unreadable, cacheDir, diskFull, now, cacheInstance, constructed>>

\* the image file is rewritten while the threads run
RaceWriteFile(bytes) ==
    /\ fs[RaceReq.file].bytes # bytes
    /\ fs' = With(fs, RaceReq.file, [bytes |-> bytes, mtime |-> now])
    /\ last' = RaceStep
    /\ UNCHANGED <<unreadable, cacheDir, diskFull, cacheFiles, now, cacheInstance,
                   constructed, pc, loc>>

NextRace ==
    \/ \E t \in Threads, result \in RaceResults : RaceStoreCall(t, result)
    \/ \E t \in Threads : RaceStorePrepare(t)
    \/ \E t \in Threads : RaceStoreOpen(t)
    \/ \E t \in Threads : RaceStoreWrite(t)
    \/ \E t \in Threads : RaceGetCall(t)
    \/ \E t \in Threads : RaceGetExists(t)
    \/ \E t \in Threads : RaceGetOpen(t)
    \/ \E t \in Threads : RaceGetRead(t)
    \/ \E t \in Threads : RaceGetCheck(t)
    \/ \E bytes \in Contents : RaceWriteFile(bytes)

SpecRace == InitRace /\ [][NextRace]_vars

-----------------------------------------------------------------------------
(* clear_cache called from threads, one step per unlink, while other calls
   (each one whole) run between its steps *)

NoClearLocals == [todo |-> {}, removed |-> {}, removed_count |-> 0]

InitClearRace ==
    /\ fs = NoFiles
    /\ unreadable = [src |-> {}, cache |-> {}]
    /\ cacheDir = "rw"
    /\ diskFull = FALSE
    /\ cacheFiles = NoFiles
    /\ now = 0
    /\ cacheInstance = 1
    /\ constructed = 1
    /\ pc = [t \in Threads |-> "idle"]
    /\ loc = [t \in Threads |-> NoClearLocals]
    /\ last = InitLast

\* line 160: the loop starts: glob lists the directory
RaceClearCall(t) ==
    /\ pc[t] = "idle"
    /\ pc' = [pc EXCEPT ![t] = "c_unlink"]
    /\ loc' = [loc EXCEPT ![t] = [NoClearLocals EXCEPT !.todo = Glob(cacheFiles)]]
    /\ last' = RaceStep
    /\ UNCHANGED <<fs, unreadable, cacheDir, diskFull, cacheFiles, now, cacheInstance,
                   constructed>>

\* lines 160-165: cache_file.unlink() on the next listed file, in any order;
\* an unlink that raises leaves the loop through the except clause, and the
\* files not yet visited stay in todo
RaceClearUnlink(t) ==
    /\ pc[t] = "c_unlink"
    /\ loc[t].todo # {}
    /\ \E cache_file \in loc[t].todo :
       \E u \in {Unlink(cacheFiles, cache_file)} :
         IF u.exc
         THEN /\ pc' = [pc EXCEPT ![t] = "idle"]
              /\ loc' = [loc EXCEPT ![t].todo = @ \ {cache_file}]
              /\ last' = [RaceStep EXCEPT !.call = "clear", !.n = loc[t].removed_count,
                                          !.path = "aborted"]
              /\ UNCHANGED cacheFiles
         ELSE /\ cacheFiles' = u.v
              /\ loc' = [loc EXCEPT ![t].todo = @ \ {cache_file},
                                    ![t].removed = @ \cup {cache_file},
                                    ![t].removed_count = @ + 1]
              /\ last' = RaceStep
              /\ UNCHANGED pc
    /\ UNCHANGED <<fs, unreadable, cacheDir, diskFull, now, cacheInstance, constructed>>

\* line 165: the loop is over: return removed_count
RaceClearReturn(t) ==
    /\ pc[t] = "c_unlink"
    /\ loc[t].todo = {}
    /\ pc' = [pc EXCEPT ![t] = "idle"]
    /\ last' = [RaceStep EXCEPT !.call = "clear", !.n = loc[t].removed_count,
                                !.path = "done"]
    /\ UNCHANGED <<fs, unreadable, cacheDir, diskFull, cacheFiles, now, cacheInstance,
                   constructed, loc>>

NextClearRace ==
    \/ \E t \in Threads : RaceClearCall(t)
    \/ \E t \in Threads : RaceClearUnlink(t)
    \/ \E t \in Threads : RaceClearReturn(t)
    \/ \E r \in ClearRequests, result \in FaultResults : StoreResult(r, result)
    \/ \E r \in ClearRequests : GetCachedResult(r)
    \/ \E f \in Paths, bytes \in Contents : WriteFile(f, bytes)

SpecClearRace == InitClearRace /\ [][NextClearRace]_vars

-----------------------------------------------------------------------------
(* get_cache_info among the other calls, with a stat that may raise *)

NextInfo ==
    \/ \E stat_raises \in BOOLEAN : GetCacheInfoIO(stat_raises)
    \/ \E r \in ClearRequests, result \in Results : StoreResult(r, result)
    \/ \E r \in ClearRequests : GetCachedResult(r)
    \/ ClearCache
    \/ \E f \in Paths, bytes \in Contents : WriteFile(f, bytes)
    \/ \E r \in ClearRequests : CorruptCacheFile(KeyOf(r), 1)
    \/ ChmodCacheDir
    \/ RemoveCacheDir
    \/ RestoreCacheDir

SpecInfo == Init /\ [][NextInfo]_vars

-----------------------------------------------------------------------------
(* describe_image in a process that has no cache instance yet: the call up
   to get_cache(), then the rest of _analyze_image_with_cache *)

\* how many times the server process is started
MaxStarts == 2

FirstUseWorlds == {World(TRUE, FALSE, TRUE, TRUE, "d1"), World(TRUE, FALSE, TRUE, FALSE, "d1")}

InitFirstUse ==
    /\ fs = NoFiles
    /\ unreadable = [src |-> {}, cache |-> {}]
    /\ cacheDir \in {"absent", "rw"}
    /\ diskFull = FALSE
    /\ cacheFiles = NoFiles
    /\ now = 0
    /\ cacheInstance = 0
    /\ constructed = 0
    /\ pc = <<"idle">>
    /\ loc = <<[req |-> NoRequest, world |-> World(TRUE, FALSE, TRUE, TRUE, "d1")]>>
    /\ last = InitLast

\* self.cache_dir.mkdir(exist_ok=True): the state of the directory after it,
\* or the OSError when it is absent and cannot be made (no space left)
Mkdir ==
    IF cacheDir # "absent" THEN Ok(cacheDir)
    ELSE IF diskFull THEN Raise
    ELSE Ok("rw")

\* describe_image lines 89-104 and _analyze_image_with_cache line 21:
\* validate_image_path, then get_cache(); an exception of the constructor
\* leaves through the except clause of describe_image
FirstUseGetCache(f, prompt, world) ==
    /\ pc[1] = "idle"
    /\ loc' = <<[req |-> Request(f, "describe", <<<<"prompt", prompt>>>>), world |-> world]>>
    /\ IF ~Exists(f)
       THEN /\ last' = Call("describe", Request(f, "describe", <<<<"prompt", prompt>>>>),
                            Some(<<"Error: Image file not found.">>), "invalid")
            /\ UNCHANGED <<pc, cacheInstance, constructed, cacheDir>>
       ELSE IF cacheInstance # 0
       THEN /\ pc' = <<"analyze">>
            /\ last' = RaceStep
            /\ UNCHANGED <<cacheInstance, constructed, cacheDir>>
       ELSE IF Mkdir.exc
       THEN /\ last' = [Call("describe", Request(f, "describe", <<<<"prompt", prompt>>>>),
                             Some(<<"Error analyzing image">>), "no_cache")
                          EXCEPT !.error = TRUE]
            /\ UNCHANGED <<pc, cacheInstance, constructed, cacheDir>>
       ELSE /\ pc' = <<"analyze">>
            /\ cacheDir' = Mkdir.v
            /\ constructed' = constructed + 1
            /\ cacheInstance' = constructed + 1
            /\ last' = RaceStep
    /\ UNCHANGED <<fs, unreadable, diskFull, cacheFiles, now>>

\* _analyze_image_with_cache lines 24-72 with the instance obtained, and the
\* return of describe_image
FirstUseAnalyze ==
    /\ pc[1] = "analyze"
    /\ pc' = <<"idle">>
    /\ \E o \in {DescribeCatch(_analyze_image_with_cache(cacheFiles, loc[1].req.file,
                     loc[1].req.params[1][2], "describe", loc[1].req.params,
                     loc[1].world))} :
         /\ cacheFiles' = o.files
         /\ last' = [Call("describe", loc[1].req, o.out, o.path)
                       EXCEPT !.raised = o.raised, !.remote = o.remote]
    /\ UNCHANGED <<fs, unreadable, cacheDir, diskFull, now, cacheInstance, constructed, loc>>

\* the server process is started again: no cache instance
Restart ==
    /\ pc[1] = "idle"
    /\ cacheInstance # 0
    /\ constructed < MaxStarts
    /\ cacheInstance' = 0
    /\ last' = Env
    /\ UNCHANGED <<fs, unreadable, cacheDir, diskFull, cacheFiles, now, constructed, pc, loc>>

NextFirstUse ==
    \/ \E r \in Requests, world \in FirstUseWorlds :
          FirstUseGetCache(r.file, r.params[1][2], world)
    \/ FirstUseAnalyze
    \/ Restart
    \/ \E r \in Requests, bytes \in Contents : WriteFile(r.file, bytes)
    \/ RemoveCacheDir
    \/ ToggleDiskFull

SpecFirstUse == InitFirstUse /\ [][NextFirstUse]_vars

-----------------------------------------------------------------------------
(* src/utils/path_utils.py: the path a tool hands to the cache *)

\* a path string: whether it starts with '/', and its components; "" has none
PathStr(abs, parts) == [abs |-> abs, parts |-> parts]
EmptyStr == PathStr(FALSE, <<>>)

\* the truth value of a str: "" is false
StrTruthy(s) == s.abs \/ s.parts # <<>>

\* base / path for a relative path
JoinPath(base, path) == PathStr(base.abs, base.parts \o path.parts)

\* os.environ.get('PWD') or os.getcwd()
EnvPwd(env) == IF StrTruthy(env.PWD) THEN env.PWD ELSE env.cwd

\* resolve_path: an absolute path as it is, a relative one joined to base_dir,
\* or to PWD when base_dir is empty
resolve_path(file_path, base_dir, env) ==
    IF file_path.abs THEN file_path
    ELSE JoinPath(IF StrTruthy(base_dir) THEN base_dir ELSE EnvPwd(env), file_path)

\* the file or directory the operating system finds for a path: a relative
\* path is looked up from the process's working directory
Locate(path, env) == IF path.abs THEN path.parts ELSE env.cwd.parts \o path.parts

\* the key of fs for the components of a file
FsName(parts) ==
    CASE parts = <<"img", "a.png">> -> ImgA
      [] parts = <<"img", "b.png">> -> ImgB
      [] OTHER -> ""

\* the directories that exist
DirParts == {<<>>, <<"img">>}

\* resolved_path.exists() and resolved_path.is_file()
PathExists(path, env) == Locate(path, env) \in DirParts \/ Exists(FsName(Locate(path, env)))
PathIsFile(path, env) == Exists(FsName(Locate(path, env)))

Validation(is_valid, error_message, resolved_path) ==
    [is_valid |-> is_valid, error_message |-> error_message, resolved_path |-> resolved_path]

\* validate_image_path(file_path, "read", base_dir)
validate_image_path(file_path, base_dir, env) ==
    IF ~StrTruthy(file_path)
    THEN Validation(FALSE, <<"Error: Empty or invalid file path provided.">>, EmptyStr)
    ELSE IF ~PathExists(resolve_path(file_path, base_dir, env), env)
    THEN Validation(FALSE, <<"Error: Image file not found.">>, EmptyStr)
    ELSE IF ~PathIsFile(resolve_path(file_path, base_dir, env), env)
    THEN Validation(FALSE, <<"Error: Path exists but is not a file.">>, EmptyStr)
    ELSE Validation(TRUE, <<>>, resolve_path(file_path, base_dir, env))

\* the arguments of describe_image, and the directories of the process
ImagePaths ==
    {EmptyStr, PathStr(TRUE, <<"img", "a.png">>), PathStr(FALSE, <<"img", "a.png">>),
     PathStr(FALSE, <<"a.png">>), PathStr(FALSE, <<"b.png">>), PathStr(TRUE, <<"img">>)}
WorkingDirs == {EmptyStr, PathStr(TRUE, <<>>), PathStr(TRUE, <<"img">>), PathStr(FALSE, <<"img">>)}
ProcessDirs == {PathStr(TRUE, <<>>), PathStr(TRUE, <<"img">>)}

InitPath ==
    /\ fs = NoFiles
    /\ unreadable = [src |-> {}, cache |-> {}]
    /\ cacheDir = "rw"
    /\ diskFull = FALSE
    /\ cacheFiles = NoFiles
    /\ now = 0
    /\ cacheInstance = 1
    /\ constructed = 1
    /\ pc = <<"idle">>
    /\ \E cwd \in ProcessDirs, pwd \in ProcessDirs \cup {EmptyStr} :
          loc = <<[cwd |-> cwd, PWD |-> pwd, resolved_path |-> EmptyStr]>>
    /\ last = InitLast

\* a call of the tool describe_image(image_path, working_directory, prompt):
\* lines 88-104, with the path handed to _analyze_image_with_cache kept in loc
DescribeImagePath(image_path, working_directory, prompt, world) ==
    \E v \in {validate_image_path(image_path, working_directory, loc[1])} :
    IF ~v.is_valid
    THEN /\ last' = Call("describe", NoRequest, Some(v.error_message), "invalid")
         /\ loc' = <<[loc[1] EXCEPT !.resolved_path = EmptyStr]>>
         /\ UNCHANGED <<fs, unreadable, cacheDir, diskFull, cacheFiles, now,
                        cacheInstance, constructed, pc>>
    ELSE \E f \in {FsName(Locate(v.resolved_path, loc[1]))} :
         \E o \in {describe_image(cacheFiles, f, prompt, world)} :
         /\ cacheFiles' = o.files
         /\ last' = [Call("describe", Request(f, "describe", <<<<"prompt", prompt>>>>),
                          o.out, o.path)
                       EXCEPT !.raised = o.raised, !.remote = o.remote]
         /\ loc' = <<[loc[1] EXCEPT !.resolved_path = v.resolved_path]>>
         /\ UNCHANGED <<fs, unreadable, cacheDir, diskFull, now, cacheInstance,
                        constructed, pc>>

\* os.chdir(d) in the server process; the PWD of its environment stays
Chdir(d) ==
    /\ loc[1].cwd # d
    /\ loc' = <<[loc[1] EXCEPT !.cwd = d]>>
    /\ last' = Env
    /\ UNCHANGED <<fs, unreadable, cacheDir, diskFull, cacheFiles, now, cacheInstance,
                   constructed, pc>>

NextPath ==
    \/ \E image_path \in ImagePaths, working_directory \in WorkingDirs :
          DescribeImagePath(image_path, working_directory, "x", World(TRUE, FALSE, TRUE, TRUE, "d1"))
    \/ \E d \in ProcessDirs : Chdir(d)
    \/ \E f \in Paths : WriteFile(f, BytesB1)
    \/ \E f \in Paths : DeleteFile(f)

SpecPath == InitPath /\ [][NextPath]_vars

-----------------------------------------------------------------------------
(* _analyze_image_with_cache with the remote call as a step of its own: the
   image is read before the request is sent, and hashed by store_result after
   the response has come; the file may be rewritten in between *)

InitAnalyze ==
    /\ fs = NoFiles
    /\ unreadable = [src |-> {}, cache |-> {}]
    /\ cacheDir = "rw"
    /\ diskFull = FALSE
    /\ cacheFiles = NoFiles
    /\ now = 0
    /\ cacheInstance = 1
    /\ constructed = 1
    /\ pc = <<"idle">>
    /\ loc = <<[req |-> NoRequest, bytes |-> <<>>, variant |-> ""]>>
    /\ last = InitLast

\* describe_image up to line 40: the lookup, get_image_info, and
\* encode_image_to_base64, which reads the bytes that are sent; a call that
\* does not send the request returns here
AnalyzeRead(r, world) ==
    /\ pc[1] = "idle"
    /\ \E cached \in {get_cached_result(cacheFiles, r.file, r.operation, r.params)} :
         IF Exists(r.file) /\ ~Truthy(cached.ret) /\ ~get_image_info(r.file, world).exc
            /\ ~world.too_large /\ world.api_key /\ world.api_ok
         THEN /\ pc' = <<"remote">>
              /\ loc' = <<[req |-> r, bytes |-> fs[r.file].bytes, variant |-> world.variant]>>
              /\ cacheFiles' = cached.files
              /\ last' = RaceStep
         ELSE \E o \in {describe_image(cacheFiles, r.file, r.params[1][2], world)} :
              /\ cacheFiles' = o.files
              /\ last' = [Call("describe", r, o.out, o.path)
                            EXCEPT !.raised = o.raised, !.remote = o.remote]
              /\ UNCHANGED <<pc, loc>>
    /\ UNCHANGED <<fs, unreadable, cacheDir, diskFull, now, cacheInstance, constructed>>

\* lines 42-72: the response has come for the bytes sent; the result is
\* formatted, handed to store_result, and returned
AnalyzeRespond ==
    /\ pc[1] = "remote"
    /\ pc' = <<"idle">>
    /\ \E result \in {FormatResult(loc[1].req.file, loc[1].bytes,
                                   Description(loc[1].bytes, loc[1].req.params[1][2],
                                               loc[1].variant))} :
       \E o \in {DescribeCatch(AnalyzeStored(result,
                     store_result(cacheFiles, loc[1].req.file, loc[1].req.operation,
                                  loc[1].req.params, result)))} :
         /\ cacheFiles' = o.files
         /\ last' = [Call("describe", loc[1].req, o.out, o.path)
                       EXCEPT !.raised = o.raised, !.remote = o.remote]
    /\ UNCHANGED <<fs, unreadable, cacheDir, diskFull, now, cacheInstance, constructed, loc>>

AnalyzeWorlds == {World(TRUE, FALSE, TRUE, TRUE, "d1"), World(TRUE, FALSE, TRUE, FALSE, "d1")}

NextAnalyze ==
    \/ \E r \in ClearRequests, world \in AnalyzeWorlds : AnalyzeRead(r, world)
    \/ AnalyzeRespond
    \/ \E r \in ClearRequests : GetCachedResult(r)
    \/ ClearCache
    \/ \E r \in ClearRequests, bytes \in Contents : WriteFile(r.file, bytes)
    \/ TickSecond

SpecAnalyze == InitAnalyze /\ [][NextAnalyze]_vars

-----------------------------------------------------------------------------
(* _get_cache_key as a string of characters: f"{operation}_{key_hash}.json",
   with any digest of the fixed length in place of md5 *)

\* the length of hexdigest() (32 for md5), and the characters it is made of
DigestLen == 2
HexChars == {"0", "a", "d"}
HexDigests == [1..DigestLen -> HexChars]

\* ".json"
Extension == <<".", "j", "s", "o", "n">>

\* mutant of CacheKeyString: the digest and the extension alone
CacheKeyStringNoPrefix(operation, key_hash) == key_hash \o Extension

\* line 60: f"{operation}_{key_hash}.json"
CacheKeyString(operation, key_hash) == operation \o <<"_">> \o key_hash \o Extension

\* operation names as strings, among them names with '_' and hex digits
OperationNames ==
    {<<"d">>, <<"a">>, <<"d", "_">>, <<"d", "_", "0">>, <<"a", "_", "0", "0">>,
     <<"d", "_", "d", "0">>}

NoKeyName == [operation |-> <<>>, key_hash |-> <<>>, key |-> <<>>]

InitKeyName ==
    /\ fs = NoFiles
    /\ unreadable = [src |-> {}, cache |-> {}]
    /\ cacheDir = "rw"
    /\ diskFull = FALSE
    /\ cacheFiles = NoFiles
    /\ now = 0
    /\ cacheInstance = 1
    /\ constructed = 1
    /\ pc = <<>>
    /\ loc = <<NoKeyName, NoKeyName>>
    /\ last = InitLast

\* a call of _get_cache_key whose md5 digest comes out as key_hash; loc keeps
\* the last two keys derived
DeriveKey(operation, key_hash) ==
    /\ loc' = <<loc[2], [operation |-> operation, key_hash |-> key_hash,
                         key |-> CacheKeyString(operation, key_hash)]>>
    /\ last' = Call("key", NoRequest, None, "")
    /\ UNCHANGED <<fs, unreadable, cacheDir, diskFull, cacheFiles, now, cacheInstance,
                   constructed, pc>>

NextKeyName ==
    \E operation \in OperationNames, key_hash \in HexDigests : DeriveKey(operation, key_hash)

SpecKeyName == InitKeyName /\ [][NextKeyName]_vars

-----------------------------------------------------------------------------
(* Properties *)

\* the record stored under the key of request r, when the file there is one
HasRecord(r) == KeyOf(r) \in DOMAIN cacheFiles /\ WellFormed(cacheFiles[KeyOf(r)])
RecordOf(r) == JsonLoad(cacheFiles[KeyOf(r)]).v

\* the entry of r is valid for retrieval: its content_hash is the hash of the
\* file's bytes now and its age is at most max_age
ValidEntry(r) ==
    /\ r.file \in DOMAIN fs
    /\ HasRecord(r)
    /\ RecordOf(r).file_hash = SHA256(fs[r.file].bytes)
    /\ now - RecordOf(r).timestamp <= max_age

\* C1: a get_cached_result returns the stored payload if and only if a record
\* exists under the derived key, its content hash equals the hash of the
\* file's bytes at lookup time and its age is at most max_age (an age of
\* exactly max_age is a hit); in every other case it returns None.
C1_GetReturnsPayloadIffValid ==
    [][last'.call = "get" =>
        last'.ret = IF ValidEntry(last'.req) THEN Some(RecordOf(last'.req).result)
                    ELSE None]_vars

\* a get that hit an entry of age exactly max_age
C1_Witness ==
    /\ last.call = "get"
    /\ last.ret.some
    /\ HasRecord(last.req)
    /\ now - RecordOf(last.req).timestamp = max_age

\* C2: round trip: a store_result of a non-empty result R for an existing
\* file, followed at once by get_cached_result with the same arguments,
\* returns exactly R.
C2_RoundTrip ==
    [][(/\ last.call = "store"
        /\ last.ret.v # <<>>
        /\ last.req.file \in DOMAIN fs
        /\ last'.call = "get"
        /\ last'.req = last.req) => last'.ret = last.ret]_vars

\* a get right after a store with the same arguments returned the stored result
C2_Witness ==
    /\ last.call = "get"
    /\ last.prev.call = "store"
    /\ last.prev.req = last.req
    /\ last.ret = Some(<<"T", "U">>)

\* the entry of r holds a hash that is not the hash of the file's bytes now
StaleEntry(r) ==
    /\ r.file \in DOMAIN fs
    /\ HasRecord(r)
    /\ RecordOf(r).file_hash # SHA256(fs[r.file].bytes)

\* C3: staleness: a get_cached_result that finds the file's bytes changed since
\* the store returns None and deletes the entry, and get_cache_info then counts
\* one entry less.
C3_StaleEntryIsEvicted ==
    [][(last'.call = "get" /\ StaleEntry(last'.req)) =>
        /\ last'.ret = None
        /\ KeyOf(last'.req) \notin DOMAIN cacheFiles'
        /\ get_cache_info(cacheFiles').cache_files_count
             = get_cache_info(cacheFiles).cache_files_count - 1]_vars

\* a get took the hash-mismatch branch and the entry is gone
C3_Witness ==
    /\ last.call = "get"
    /\ last.path = "stale"
    /\ last.ret = None
    /\ last.req.file \in DOMAIN fs
    /\ KeyOf(last.req) \notin DOMAIN cacheFiles

\* C4: expiration: an entry older than max_age is never returned by
\* get_cached_result, even when its content hash still matches; the get that
\* finds it expired deletes the entry and returns None.
C4_ExpiredEntryIsEvicted ==
    [][(/\ last'.call = "get"
        /\ HasRecord(last'.req)
        /\ now - RecordOf(last'.req).timestamp > max_age) =>
        /\ last'.ret = None
        /\ last'.req.file \in DOMAIN fs => KeyOf(last'.req) \notin DOMAIN cacheFiles']_vars

\* a get took the expired branch (the hash matched) and the entry is gone
C4_Witness ==
    /\ last.call = "get"
    /\ last.path = "expired"
    /\ last.ret = None
    /\ KeyOf(last.req) \notin DOMAIN cacheFiles

\* something on the lookup path of r fails: the image file is missing or
\* unreadable, the cache file is unreadable or is no record, the cache
\* directory is missing
LookupFails(r) ==
    \/ r.file \notin DOMAIN fs
    \/ r.file \in unreadable.src
    \/ KeyOf(r) \in unreadable.cache
    \/ (KeyOf(r) \in DOMAIN cacheFiles /\ ~WellFormed(cacheFiles[KeyOf(r)]))
    \/ cacheDir = "absent"

\* C5: get_cached_result never raises to its caller, and any failure on the
\* lookup path (missing or unreadable image file, unreadable cache file,
\* record that does not deserialize, missing cache directory) gives None.
C5_GetNeverRaises ==
    [][last'.call = "get" =>
        /\ ~last'.raised
        /\ LookupFails(last'.req) => last'.ret = None]_vars

\* a get met a cache file that does not deserialize and returned None
C5_Witness ==
    /\ last.call = "get"
    /\ last.path = "error"
    /\ last.ret = None
    /\ ~last.raised
    /\ KeyOf(last.req) \in DOMAIN cacheFiles
    /\ ~WellFormed(cacheFiles[KeyOf(last.req)])

\* C6: store_result never raises to its caller, whatever fails while it
\* hashes the file or writes the cache file.
C6_StoreNeverRaises == last.call = "store" => ~last.raised

\* a store failed inside (full disk: the file is left empty) and returned
C6_Witness ==
    /\ last.call = "store"
    /\ last.path = "error"
    /\ ~last.raised
    /\ diskFull
    /\ KeyOf(last.req) \in DOMAIN cacheFiles
    /\ cacheFiles[KeyOf(last.req)] = <<>>

\* the result describe_image computes afresh for request r
FreshResults(r) ==
    {FormatResult(r.file, fs[r.file].bytes,
                  Description(fs[r.file].bytes, r.params[1][2], variant)) :
       variant \in {"d1", "d2"}}

\* C7: failure isolation: with the cache directory unwritable, a cached
\* analysis whose remote call succeeds returns the freshly computed result
\* (no error, no exception) and no cache file is created.
C7_UnwritableCacheStillAnswers ==
    [][(last'.call = "describe" /\ last'.path = "fresh" /\ cacheDir # "rw") =>
        /\ ~last'.raised
        /\ last'.ret.some
        /\ last'.ret.v \in FreshResults(last'.req)
        /\ DOMAIN cacheFiles' \subseteq DOMAIN cacheFiles]_vars

\* an analysis called the API with the directory read-only, returned the
\* fresh result, and its key has no cache file
C7_Witness ==
    /\ last.call = "describe"
    /\ last.path = "fresh"
    /\ last.remote
    /\ cacheDir = "ro"
    /\ last.ret.some
    /\ last.ret.v \in FreshResults(last.req)
    /\ KeyOf(last.req) \notin DOMAIN cacheFiles

\* C8: singleton: under any interleaving of get_cache() calls, exactly one
\* ImageAnalysisCache is constructed (one directory creation) and every call
\* returns that same instance.
C8_OneInstance ==
    /\ constructed <= 1
    /\ last.call = "get_cache" => (last.n = 1 /\ cacheInstance = 1)

C10_ClearLeavesNothing ==
    last.call = "clear" =>
        /\ \A r \in ClearRequests :
              get_cached_result(cacheFiles, r.file, r.operation, r.params).ret = None
        /\ get_cache_info(cacheFiles).cache_files_count = 0
        /\ ~get_cache_info(cacheFiles).error

\* clear_cache() has removed the entries of two keys
C10_Witness == last.call = "clear" /\ last.n = 2 /\ DOMAIN fs = Paths

\* C11: clear_cache is best-effort per entry: when a call has returned, it
\* has tried to delete every entry it listed, one failed deletion
\* notwithstanding, and the count it returned is the number of entries it
\* removed.
C11_ClearIsBestEffort ==
    \A t \in Threads :
        (pc[t] = "idle" /\ last.call = "clear") =>
            /\ loc[t].todo = {}
            /\ loc[t].removed_count = Cardinality(loc[t].removed)

\* the listing after store_result(r1, A) and then store_result(r2, B)
StoreThenStore(files, r1, A, r2, B) ==
    store_result(store_result(files, r1.file, r1.operation, r1.params, A).files,
                 r2.file, r2.operation, r2.params, B).files

\* a get or store step on one key leaves the file of every other key as it was
OtherKeysUntouched ==
    last'.call \in {"get", "store"} =>
        \A r \in ClearRequests :
            KeyOf(r) # KeyOf(last'.req) =>
                /\ KeyOf(r) \in DOMAIN cacheFiles <=> KeyOf(r) \in DOMAIN cacheFiles'
                /\ KeyOf(r) \in DOMAIN cacheFiles =>
                       cacheFiles'[KeyOf(r)] = cacheFiles[KeyOf(r)]

\* two stores on two files, in either order, then each get returns its own payload
StoredSideBySide ==
    \A r1, r2 \in ClearRequests, A, B \in Results :
        (r1.file # r2.file /\ Exists(r1.file) /\ Exists(r2.file)) =>
            /\ get_cached_result(StoreThenStore(cacheFiles, r1, A, r2, B),
                                 r1.file, r1.operation, r1.params).ret = Some(A)
            /\ get_cached_result(StoreThenStore(cacheFiles, r1, A, r2, B),
                                 r2.file, r2.operation, r2.params).ret = Some(B)

ParamSet(params) == {params[i] : i \in DOMAIN params}

\* the same path, operation and parameter key/value pairs
SameKeyInputs(r1, r2) ==
    /\ r1.file = r2.file
    /\ r1.operation = r2.operation
    /\ ParamSet(r1.params) = ParamSet(r2.params)

\* C13: key determinism: _get_cache_key gives the key it gave the first time
\* whenever the path, the operation and the set of parameter pairs are the
\* same, whatever the insertion order of the parameters, the content of the
\* file, the content of the cache and the calls made in between.
C13_KeyDeterminism ==
    (last.call = "key" /\ loc # <<>> /\ SameKeyInputs(loc[1].req, last.req)) =>
        last.ret.v = loc[1].key

\* the key is computed again with the two parameters in the other order,
\* after the file was written and a result was stored
C13_Witness ==
    /\ last.call = "key"
    /\ loc # <<>>
    /\ SameKeyInputs(loc[1].req, last.req)
    /\ loc[1].req.params # last.req.params
    /\ last.prev.call \in {"store", "env", "clear"}
    /\ cacheFiles # NoFiles

\* r1 and r2 name the same file and differ in the operation or in a parameter
DiffersInOperationOrParams(r1, r2) ==
    /\ r1.file = r2.file
    /\ r1.operation # r2.operation \/ ParamSet(r1.params) # ParamSet(r2.params)

\* what get_cached_result(r2) returns once store_result(r1, R) has run
GetAfterStore(r1, R, r2) ==
    get_cached_result(store_result(cacheFiles, r1.file, r1.operation, r1.params, R).files,
                      r2.file, r2.operation, r2.params).ret

\* a store under r1 is not seen by a get under a request that differs in the
\* operation or in a parameter value: the keys differ, and the get returns
\* what it returned without the store (none when r2 has no entry of its own)
DifferentRequestMisses ==
    \A r1, r2 \in SensRequests, R \in Results :
        (DiffersInOperationOrParams(r1, r2) /\ Exists(r1.file)) =>
            /\ KeyOf(r1) # KeyOf(r2)
            /\ GetAfterStore(r1, R, r2) =
                   get_cached_result(cacheFiles, r2.file, r2.operation, r2.params).ret
            /\ KeyOf(r2) \notin DOMAIN cacheFiles => GetAfterStore(r1, R, r2) = None

\* a get made when the bytes of the file are not the bytes the entry was
\* stored for returns none
ChangedBytesMiss ==
    (/\ last'.call = "get"
     /\ Exists(last'.req.file)
     /\ HasRecord(last'.req)
     /\ RecordOf(last'.req).file_hash # SHA256(fs[last'.req.file].bytes))
    => last'.ret = None

\* C14: sensitivity: after store_result(f, op, p, R), a get_cached_result
\* with another operation name or another parameter value, or one made
\* after the bytes of f changed, does not return R.
C14_Sensitivity == [][ChangedBytesMiss]_vars /\ []DifferentRequestMisses

\* a get under another operation misses while the entry stored under
\* "describe" is valid
C14_Witness ==
    /\ last.call = "get"
    /\ last.req = Request(ImgA, "analyze", PromptX)
    /\ last.ret = None
    /\ last.prev.call = "store" /\ last.prev.req = ReqA
    /\ ValidEntry(ReqA)

\* the image file of r is missing or cannot be read
SourceUnavailable(r) == r.file \notin DOMAIN fs \/ r.file \in unreadable.src

\* a get whose image file is unavailable returns none and leaves the cache
\* directory as it is
UnavailableSourceKeepsEntry ==
    (last'.call = "get" /\ SourceUnavailable(last'.req)) =>
        (last'.ret = None /\ cacheFiles' = cacheFiles)

\* a get whose image file is there with the bytes of the entry, within
\* max_age, returns the stored payload
AvailableSourceHits ==
    (/\ last'.call = "get"
     /\ ~SourceUnavailable(last'.req)
     /\ ValidEntry(last'.req)
     /\ KeyOf(last'.req) \notin unreadable.cache
     /\ cacheDir # "absent")
    => last'.ret = Some(RecordOf(last'.req).result)

\* C15: when the image file is missing or unreadable at lookup time,
\* get_cached_result returns none and neither deletes nor modifies the cache
\* entry; once the file is back with the same bytes, within max_age, get
\* returns the stored payload again.
C15_UnavailableSourceIsAMiss ==
    [][UnavailableSourceKeepsEntry /\ AvailableSourceHits]_vars

\* a get found the image file unreadable, returned none, and the well-formed
\* entry is still in the cache
C15_Witness ==
    /\ last.call = "get"
    /\ last.ret = None
    /\ last.req.file \in unreadable.src
    /\ HasRecord(last.req)
    /\ KeyOf(last.req) \notin unreadable.cache
    /\ cacheDir = "rw"

\* the record of r does not match the bytes of its file, or is older than max_age
EntryStaleOrExpired(r) ==
    /\ HasRecord(r)
    /\ r.file \in DOMAIN fs
    /\ \/ RecordOf(r).file_hash # SHA256(fs[r.file].bytes)
       \/ now - RecordOf(r).timestamp > max_age

\* C16: entry lifecycle: a cache entry present in one state and absent in the
\* next was removed by clear_cache, or by a get_cached_result on its own key
\* that found it stale or expired; nothing else removes an entry.
C16_EntryLifecycle ==
    [][\A r \in ClearRequests :
          (KeyOf(r) \in DOMAIN cacheFiles /\ KeyOf(r) \notin DOMAIN cacheFiles') =>
              \/ last'.call = "clear"
              \/ (last'.call = "get" /\ last'.req = r /\ EntryStaleOrExpired(r))]_vars

\* a get has removed the expired entry of its key and the entry of the other
\* key is still there
C16_Witness ==
    /\ last.call = "get"
    /\ last.path = "expired"
    /\ KeyOf(last.req) \notin DOMAIN cacheFiles
    /\ cacheFiles # NoFiles

\* some cache file is new or has a new text after the step
EntryWritten ==
    \E k \in DOMAIN cacheFiles' : k \notin DOMAIN cacheFiles \/ cacheFiles'[k] # cacheFiles[k]

\* C17: order within the cached analysis: the remote API is called only when
\* get_cached_result returned a miss for that call, and a cache entry is
\* created or overwritten only when the remote call returned successfully;
\* an analysis that ends in an error writes no entry.
C17_AnalysisOrder ==
    [][last'.call = "describe" =>
        /\ last'.remote =>
              get_cached_result(cacheFiles, last'.req.file, last'.req.operation,
                                last'.req.params).ret = None
        /\ EntryWritten => (last'.remote /\ last'.path = "fresh")
        /\ last'.path \in {"invalid", "info_error", "too_large", "no_key", "api_error"}
              => ~EntryWritten]_vars

\* the API call of an analysis failed after a miss, and its key has no entry
C17_Witness ==
    /\ last.call = "describe"
    /\ last.path = "api_error"
    /\ last.remote
    /\ KeyOf(last.req) \notin DOMAIN cacheFiles

\* a describe_image call right after one that returned a fresh result, with
\* the same arguments, returns that result with the cache marker and calls
\* no API
RepeatIsServedFromCache ==
    (/\ last.call = "describe" /\ last.path = "fresh"
     /\ last'.call = "describe" /\ last'.req = last.req)
    => (/\ last'.path = "hit"
        /\ ~last'.remote
        /\ last'.ret = Some(Append(last.ret.v, CacheMarker)))

\* a describe_image call made while the entry of its key is valid (the bytes
\* of the file are those of the record, the age is at most max_age) returns
\* the stored result with the cache marker and calls no API
ValidEntryIsServed ==
    (last'.call = "describe" /\ ValidEntry(last'.req))
    => (/\ last'.path = "hit"
        /\ ~last'.remote
        /\ last'.ret = Some(Append(RecordOf(last'.req).result, CacheMarker)))

\* C18: repeated call avoidance: after a describe_image call completed
\* successfully, a later call with the same path, operation and prompt, made
\* while the bytes are unchanged, the entry is within max_age and the cache
\* was not cleared, returns the cached result and makes no remote API call.
C18_RepeatedCallAvoidance == [][RepeatIsServedFromCache /\ ValidEntryIsServed]_vars

\* the second of two describe_image calls with the same arguments was served
\* from the cache
C18_Witness ==
    /\ last.call = "describe"
    /\ last.path = "hit"
    /\ ~last.remote
    /\ last.prev.call = "describe"
    /\ last.prev.req = last.req

\* C19: obtaining the cache on first use always succeeds for the caller:
\* when the cache directory cannot be created, get_cache() raises nothing,
\* and an analysis whose image, credential and API call are in order
\* returns the fresh result, as with a cache that always misses.
C19_FirstUseAlwaysSucceeds ==
    (last.call = "describe" /\ pc[1] = "idle") =>
        /\ ~last.error
        /\ (loc[1].world.api_ok /\ last.path \notin {"invalid", "hit"}) =>
              last.ret.v \in FreshResults(last.req)

\* the sizes of the files of the cache directory, added up
RECURSIVE SizeOnDisk(_)
SizeOnDisk(keys) ==
    IF keys = {} THEN 0
    ELSE LET k == CHOOSE x \in keys : TRUE
         IN Len(cacheFiles[k]) + SizeOnDisk(keys \ {k})

\* a get_cache_info step changes nothing on disk, raises nothing, and answers
\* with the error indicator or with the count and the size of the files
InfoStep ==
    last'.call = "info" =>
        /\ cacheFiles' = cacheFiles
        /\ cacheDir' = cacheDir
        /\ unreadable' = unreadable
        /\ ~last'.raised
        /\ \/ last'.error
           \/ /\ last'.n = Cardinality(DOMAIN cacheFiles)
              /\ last'.size = SizeOnDisk(DOMAIN cacheFiles)

\* C20: get_cache_info is read-only and total: it creates, changes and
\* removes no cache file, its file count is the number of record files in the
\* cache directory and its total size the sum of their sizes, and a failure
\* gives the error indicator, never an exception.
C20_InfoIsReadOnlyAndTotal == [][InfoStep]_vars

C20_Witness ==
    /\ last.call = "info"
    /\ ~last.error
    /\ last.n = 2
    /\ last.size = SizeOnDisk(DOMAIN cacheFiles)
    /\ last.size > last.n

\* C21: every path the tool layer hands to get_cached_result or store_result
\* is absolute, whatever image_path and working_directory (relative or
\* absolute) passed the validation.
C21_CachePathsAreAbsolute ==
    (last.call = "describe" /\ last.path # "invalid") => loc[1].resolved_path.abs

\* the text is a complete record whose hash is the hash of the file's bytes
\* now and whose age is within max_age
FreshRecord(text, file_path) ==
    /\ WellFormed(text)
    /\ file_path \in DOMAIN fs
    /\ JsonLoad(text).v.file_hash = SHA256(fs[file_path].bytes)
    /\ ~CacheExpired(now - JsonLoad(text).v.timestamp)

\* a step that removes the cache file of the key removes a file that holds
\* no fresh record
DeletesOnlyStale ==
    (RaceKey \in DOMAIN cacheFiles /\ RaceKey \notin DOMAIN cacheFiles') =>
        ~FreshRecord(cacheFiles[RaceKey], RaceReq.file)

\* C22: a get_cached_result deletes an entry only if the record present at
\* the moment of the deletion is stale or expired; a fresh record that a
\* concurrent store_result wrote after the get read a stale one is not deleted.
C22_GetDeletesOnlyStale == [][DeletesOnlyStale]_vars

\* the bytes a result of the analysis was computed from
AnalysedBytes(result) == result[2][2]

\* C23: every payload get_cached_result returns for a file was produced by
\* analysing the bytes the file has at the lookup, also when the file was
\* rewritten between the read for the remote call and the hash of store_result.
C23_HitIsForCurrentBytes ==
    (last.call = "get" /\ last.ret.some) =>
        AnalysedBytes(last.ret.v) = fs[last.req.file].bytes

\* C24: a store_result on an existing key replaces the whole record; when
\* the store_result calls made on a key, one after the other or at the same
\* time, have all returned, the cache file holds the complete record of one
\* of them.
C24_LastWriteWins ==
    ((\A t \in Threads : pc[t] = "idle") /\ RaceKey \in DOMAIN cacheFiles) =>
        /\ WellFormed(cacheFiles[RaceKey])
        /\ JsonLoad(cacheFiles[RaceKey]).v.result \in last.puts
        /\ JsonLoad(cacheFiles[RaceKey]).v.file_path = RaceReq.file

\* C25: store_result replaces the cache file atomically for readers: a
\* get_cached_result that is about to open and read the file of the key
\* never finds an empty, cut or half-written record in it.
C25_WriteIsAtomicForReaders ==
    ((\E t \in Threads : pc[t] = "g_open") /\ RaceKey \in DOMAIN cacheFiles) =>
        WellFormed(cacheFiles[RaceKey])

\* a record written by a store carries the hash of the file's bytes
StoredHashIsOfBytes ==
    (last'.call = "store" /\ last'.path = "stored") =>
        JsonLoad(cacheFiles'[KeyOf(last'.req)]).v.file_hash
            = SHA256(fs[last'.req.file].bytes)

\* a get on an entry whose hash is the hash of the bytes now hits, whatever
\* the modification time of the file
SameBytesStillHit ==
    (last'.call = "get" /\ ValidEntry(last'.req)) =>
        last'.ret = Some(RecordOf(last'.req).result)

\* the sizes and modification times tried in place of the recorded ones
MetaValues == {0, 7}

\* the listing with other values in the file_size and file_mtime of r's record
WithMeta(r, size, mtime) ==
    With(cacheFiles, KeyOf(r),
         JsonDump([RecordOf(r) EXCEPT !.file_size = size, !.file_mtime = mtime]))

\* a lookup gives the same answer whatever size and mtime the record holds
MetadataIgnored ==
    \A r \in Requests : HasRecord(r) =>
        \A size \in MetaValues, mtime \in MetaValues :
            /\ get_cached_result(WithMeta(r, size, mtime), r.file, r.operation, r.params).ret
                 = get_cached_result(cacheFiles, r.file, r.operation, r.params).ret
            /\ get_cached_result(WithMeta(r, size, mtime), r.file, r.operation, r.params).path
                 = get_cached_result(cacheFiles, r.file, r.operation, r.params).path

\* C26: validity is decided by content only: a stored record carries the hash
\* of the file's bytes, a lookup compares it with the hash of the bytes now,
\* a file rewritten with the same bytes still hits, and the recorded size and
\* mtime change no outcome.
C26_ValidityByContentOnly ==
    [][StoredHashIsOfBytes /\ SameBytesStillHit]_vars /\ []MetadataIgnored

\* a hit on a file rewritten, with the same bytes, after the store
C26_Witness ==
    /\ last.call = "get"
    /\ last.ret.some
    /\ HasRecord(last.req)
    /\ RecordOf(last.req).file_hash = SHA256(fs[last.req.file].bytes)
    /\ RecordOf(last.req).file_mtime # fs[last.req.file].mtime

\* a get that returns a payload leaves every cache file as it was
HitChangesNothing ==
    (last'.call = "get" /\ last'.ret.some) => cacheFiles' = cacheFiles

\* the timestamp of a record is the time of the store that wrote it: a store
\* writes the time of the call, and no other step changes it
TimestampIsStoreTime ==
    /\ (last'.call = "store" /\ last'.path = "stored") =>
           JsonLoad(cacheFiles'[KeyOf(last'.req)]).v.timestamp = now
    /\ \A k \in DOMAIN cacheFiles \cap DOMAIN cacheFiles' :
           (/\ WellFormed(cacheFiles[k])
            /\ WellFormed(cacheFiles'[k])
            /\ JsonLoad(cacheFiles'[k]).v.timestamp # JsonLoad(cacheFiles[k]).v.timestamp)
           => (last'.call \in {"store", "describe"} /\ last'.path \in {"stored", "fresh"})

\* an entry older than max_age is not served, whatever was served before
ExpiresAfterMaxAge ==
    (/\ last'.call = "get"
     /\ HasRecord(last'.req)
     /\ now - RecordOf(last'.req).timestamp > max_age) => last'.ret = None

\* C27: a get_cached_result that hits leaves the cache unchanged: the record
\* is not rewritten and its timestamp not refreshed, so an entry expires
\* max_age after the store_result that wrote it however many hits it served.
C27_HitDoesNotSlideTTL ==
    [][HitChangesNothing /\ TimestampIsStoreTime /\ ExpiresAfterMaxAge]_vars

\* a second hit in a row, on an entry that has reached the age max_age
C27_Witness ==
    /\ last.call = "get"
    /\ last.ret.some
    /\ last.prev.call = "get"
    /\ last.prev.req = last.req
    /\ HasRecord(last.req)
    /\ now - RecordOf(last.req).timestamp = max_age

\* the operation name read back from a key: what stands before the '_', the
\* digest and the extension at its end
OperationOfKey(key) == SubSeq(key, 1, Len(key) - DigestLen - Len(Extension) - 1)

\* C28: keys derived for two different operation names are never equal, also
\* when the two digests are the same: the key is the operation, '_', a digest
\* of fixed length and a fixed extension, and the operation can be read back.
C28_OperationInKey ==
    /\ (loc[1].operation # loc[2].operation) => loc[1].key # loc[2].key
    /\ \A i \in 1..2 : loc[i].key # <<>> => OperationOfKey(loc[i].key) = loc[i].operation

\* two keys of different operation names, one a prefix of the other, with
\* the same digest
C28_Witness ==
    /\ loc[1].operation = <<"d">>
    /\ loc[2].operation = <<"d", "_", "d", "0">>
    /\ loc[1].key_hash = loc[2].key_hash
    /\ loc[1].key # loc[2].key

\* the cache file of key k holds a text that does not deserialize
Malformed(files, k) == k \in DOMAIN files /\ ~WellFormed(files[k])

\* a lookup on a malformed record gives None and leaves the files in place
MalformedIsAMiss ==
    (last'.call = "get" /\ Malformed(cacheFiles, KeyOf(last'.req))) =>
        /\ last'.ret = None
        /\ cacheFiles' = cacheFiles

\* get_cache_info counts the malformed files with the others
MalformedIsCounted ==
    (last'.call = "info" /\ \E k \in DOMAIN cacheFiles : Malformed(cacheFiles, k)) =>
        /\ last'.n = Cardinality(DOMAIN cacheFiles)
        /\ last'.n >= 1

\* a malformed file is there, malformed, after every step that is neither a
\* store on its key nor a clear
MalformedStays ==
    \A k \in DOMAIN cacheFiles :
        (Malformed(cacheFiles, k) /\ ~Malformed(cacheFiles', k)) =>
            \/ last'.call = "clear"
            \/ /\ last'.call \in {"store", "describe"}
               /\ last'.path \in {"stored", "fresh"}
               /\ KeyOf(last'.req) = k

\* C29: a malformed record is never removed by a lookup: get_cached_result on
\* a key whose file does not deserialize returns None and leaves the file,
\* which get_cache_info keeps counting, until a store_result on the key
\* overwrites it or clear_cache removes it.
C29_MalformedRecordStays ==
    [][MalformedIsAMiss /\ MalformedIsCounted /\ MalformedStays]_vars

\* a second lookup in a row on a file that does not deserialize
C29_Witness ==
    /\ last.call = "get"
    /\ last.prev.call = "get"
    /\ last.path = "error"
    /\ last.ret = None
    /\ last.req.file \in DOMAIN fs
    /\ Malformed(cacheFiles, KeyOf(last.req))

\* C30: store_result for an image file that does not exist is a no-op: it
\* returns normally and creates, changes and removes no cache file; an entry
\* the key already has stays as it was.
C30_StoreOfMissingFileIsNoOp ==
    [][(last'.call = "store" /\ last'.req.file \notin DOMAIN fs) =>
        /\ ~last'.raised
        /\ last'.path = "nofile"
        /\ cacheFiles' = cacheFiles]_vars

\* a store for a removed image file whose key still has its record
C30_Witness ==
    /\ last.call = "store"
    /\ last.req.file \notin DOMAIN fs
    /\ HasRecord(last.req)
    /\ RecordOf(last.req).result # last.ret.v

\* every result line 67 can format: the text before the description and the
\* description, with no marker behind them
AnalysisResults ==
    {FormatResult(f, bytes, Description(bytes, prompt, variant)) :
       f \in Paths, bytes \in Contents, prompt \in {"x", "y"}, variant \in {"d1", "d2"}}

\* the payload of every record in the cache is a result as it was formatted
NoMarkerStored ==
    \A k \in DOMAIN cacheFiles :
        WellFormed(cacheFiles[k]) => JsonLoad(cacheFiles[k]).v.result \in AnalysisResults

\* the output of a hit is the stored payload with the marker behind it, once,
\* and the hit writes nothing
HitAppendsMarkerOnce ==
    (last'.call = "describe" /\ last'.path = "hit") =>
        /\ last'.ret = Some(Append(RecordOf(last'.req).result, CacheMarker))
        /\ Len(last'.ret.v) = Len(RecordOf(last'.req).result) + 1
        /\ cacheFiles' = cacheFiles

\* C31: the cache marker is never stored: no stored payload holds the
\* '[Result retrieved from cache]' suffix, and the output of the cached
\* analysis on a hit is the stored payload followed by the suffix once,
\* however many times the entry is served.
C31_MarkerIsNeverStored == [][HitAppendsMarkerOnce]_vars /\ []NoMarkerStored

\* a hit that follows a hit on the same entry, a second after it was stored
C31_Witness ==
    /\ last.call = "describe"
    /\ last.path = "hit"
    /\ last.prev.call = "describe"
    /\ last.prev.req = last.req
    /\ HasRecord(last.req)
    /\ now - RecordOf(last.req).timestamp >= 1
    /\ last.ret.v = Append(RecordOf(last.req).result, CacheMarker)

====
